---- MODULE Spec2Model ----
(***************************************************************************)
(* Model of src/scene.ts of portal-scene: the asynchronous init(), the     *)
(* frame loop animate(), the window 'resize' listener, the lil-gui debug   *)
(* panel and its persistence in localStorage under the key 'guiState'.     *)
(*                                                                         *)
(* JavaScript runs every callback to completion, so each callback (and     *)
(* each segment of init() between two awaits) is one action.  The host     *)
(* (display size, devicePixelRatio, wall clock, asset files, storage) is   *)
(* the environment and changes only between callbacks.                     *)
(***************************************************************************)
EXTENDS Integers, Sequences, FiniteSets, TLC

(* ------------------------------ bounds -------------------------------- *)
MaxWidth == 2        \* displayed canvas widths are 1..MaxWidth
MaxHeight == 2       \* displayed canvas heights are 1..MaxHeight
MaxTime == 1         \* the wall clock stops advancing at MaxTime
MaxSizeEdit == 1     \* the panel can set uSize to 80..80+MaxSizeEdit
MaxMissing == 1      \* the scene file lacks at most MaxMissing of the names

(* ------------------------- program constants -------------------------- *)
PixelRatioCap == 2   \* Math.min(window.devicePixelRatio, 2)
DefaultSize == 80    \* uSize: { value: 80 }
SizeMax == 500       \* .max(500) of the size controller

\* window.devicePixelRatio is below, at or above the cap
Dprs == 1..(PixelRatioCap + 1)

(* ------------------------------ options ------------------------------- *)
None == << >>
Some(x) == <<x>>
Get(o) == o[1]

Min(a, b) == IF a < b THEN a ELSE b

RECURSIVE GCD(_, _)
GCD(a, b) == IF b = 0 THEN a ELSE GCD(b, a % b)

\* the quotient w / h as a fraction in lowest terms
Ratio(w, h) == <<w \div GCD(w, h), h \div GCD(w, h)>>

Widths == 1..MaxWidth
Heights == 1..MaxHeight
Sizes == Widths \X Heights
FireflySizes == DefaultSize..(DefaultSize + MaxSizeEdit)

(* -------------------------- three.js Color ---------------------------- *)
\* Color objects live on a heap; config.portal and the portal uniforms hold
\* references to them.
ColorStartRef == "colorStart#1"
ColorEndRef == "colorEnd#1"
SpareRefA == "color#3"
SpareRefB == "color#4"
Refs == {ColorStartRef, ColorEndRef, SpareRefA, SpareRefB}

HexStart == "#c4c4ac"
HexEnd == "#4c7976"
HexRed == "#ff0000"
HexBlack == "#000000"

\* new Color(hex): the r, g, b components of a hex string
FromHexString(hex) ==
  CASE hex = HexStart -> <<196, 196, 172>>
    [] hex = HexEnd -> <<76, 121, 118>>
    [] hex = HexRed -> <<255, 0, 0>>
    [] OTHER -> <<0, 0, 0>>

Palette == {HexStart, HexEnd, HexRed, HexBlack}
PickableColors == {HexRed}

\* lil-gui's ColorController.save(): the hex string of a Color
ToHexString(rgb) == CHOOSE h \in Palette : FromHexString(h) = rgb

config == [portal |-> [colorStart |-> ColorStartRef, colorEnd |-> ColorEndRef]]

InitialHeap ==
  [r \in Refs |->
     CASE r = ColorStartRef -> FromHexString(HexStart)
       [] r = ColorEndRef -> FromHexString(HexEnd)
       [] r = SpareRefA -> FromHexString(HexStart)
       [] OTHER -> FromHexString(HexEnd)]

(* ------------------------------- JSON --------------------------------- *)
\* A JSON text is a sequence of tokens: "{", then (folder, controller,
\* value text) triples, then "}".
BoolText(b) == IF b THEN "true" ELSE "false"
TextBool(t) == t = "true"
NumberText(n) == ToString(n)
TextNumber(t) == CHOOSE n \in 0..SizeMax : ToString(n) = t

\* gui.save(): the value of every controller, by folder title and name
Save(ff, hp, axes, ctl) ==
  [Fireflies |-> [size |-> ff.uSize],
   Portal |-> [colorStart |-> ToHexString(hp[config.portal.colorStart]),
               colorEnd |-> ToHexString(hp[config.portal.colorEnd])],
   Helpers |-> [axes |-> axes.visible],
   Camera |-> [autoRotate |-> ctl.autoRotate]]

\* JSON.stringify of a saved panel state
Stringify(s) ==
  <<"{", "Fireflies", "size", NumberText(s.Fireflies.size),
         "Portal", "colorStart", s.Portal.colorStart,
         "Portal", "colorEnd", s.Portal.colorEnd,
         "Helpers", "axes", BoolText(s.Helpers.axes),
         "Camera", "autoRotate", BoolText(s.Camera.autoRotate), "}">>

\* whether JSON.parse accepts the text
IsJSON(text) ==
  /\ Len(text) >= 2
  /\ text[1] = "{"
  /\ text[Len(text)] = "}"
  /\ (Len(text) - 2) % 3 = 0

\* the value text stored for a controller, if any
Lookup(text, folder, name) ==
  LET hits == {i \in 2..(Len(text) - 3) :
                 i % 3 = 2 /\ text[i] = folder /\ text[i + 1] = name}
  IN IF hits = {} THEN None ELSE Some(text[(CHOOSE i \in hits : TRUE) + 2])

\* JSON.parse of a text that IsJSON accepts
Parse(text) ==
  [Fireflies |-> [size |-> TextNumber(Get(Lookup(text, "Fireflies", "size")))],
   Portal |-> [colorStart |-> Get(Lookup(text, "Portal", "colorStart")),
               colorEnd |-> Get(Lookup(text, "Portal", "colorEnd"))],
   Helpers |-> [axes |-> TextBool(Get(Lookup(text, "Helpers", "axes")))],
   Camera |-> [autoRotate |-> TextBool(Get(Lookup(text, "Camera", "autoRotate")))]]

EmptyText == << >>
MalformedText == <<"{">>

(* ------------------------------ scene --------------------------------- *)
ObjectNames == {"Scene", "baked", "lampLightA", "lampLightB", "portalLight", "Fireflies"}

\* the lookups of init() whose result is dereferenced, in program order
AssembleLookups == <<"baked", "lampLightA", "lampLightB">>

\* what a scene file may hold: all the names but a few
SceneFiles ==
  {names \in SUBSET ObjectNames : Cardinality(ObjectNames \ names) <= MaxMissing}

\* a faulty variant: a lookup that finds nothing is skipped (mesh?.material = ...)
FirstMissingSkipped(names, objects) == None

RECURSIVE FirstMissing(_, _)
\* the first name of the sequence that scene.getObjectByName does not find
FirstMissing(names, objects) ==
  IF names = << >> THEN None
  ELSE IF Head(names) \notin objects THEN Some(Head(names))
  ELSE FirstMissing(Tail(names), objects)

VARIABLES
  clientSize,        \* canvas.clientWidth, canvas.clientHeight
  devicePixelRatio,  \* window.devicePixelRatio
  now,               \* performance.now()
  localStorage,      \* localStorage.getItem('guiState'): None is null
  phase,             \* where init().then(animate) stands
  error,             \* what rejected init(), if anything
  loads,             \* the two loadAsync calls
  requests,          \* how many times each asset was requested
  sceneObjects,      \* the object names in the scene graph
  renderer,          \* WebGLRenderer: size and pixel ratio
  camera,            \* PerspectiveCamera: aspect
  fireflies,         \* uniforms of fireflies.material
  portalMaterial,    \* uniforms of portalLight.material
  heap,              \* the Color objects
  cameraControls,    \* OrbitControls: autoRotate
  axesHelper,        \* AxesHelper: visible
  clock,             \* Clock
  gui,               \* whether the panel exists
  resizeListener,    \* whether the 'resize' listener is registered
  rafPending,        \* frame callbacks requested and not yet run
  frame,             \* what the draw of this step read, if it drew
  initRead           \* what init() read from localStorage, if it got there

envVars == <<clientSize, devicePixelRatio, now, localStorage>>
loadVars == <<loads, requests, sceneObjects>>
glVars == <<renderer, camera, fireflies, portalMaterial, heap>>
uiVars == <<cameraControls, axesHelper, clock, gui, resizeListener>>
runVars == <<phase, error, rafPending, frame, initRead>>
vars == <<envVars, loadVars, glVars, uiVars, runVars>>

InitialStorage == {None, Some(EmptyText), Some(MalformedText)}

Init ==
  /\ clientSize \in Sizes
  /\ devicePixelRatio \in Dprs
  /\ now = 0
  /\ localStorage \in InitialStorage
  /\ phase = "boot"
  /\ error = ""
  /\ loads = [scene |-> "idle", texture |-> "idle"]
  /\ requests = [scene |-> 0, texture |-> 0]
  /\ sceneObjects = {}
  /\ renderer = None
  /\ camera = None
  /\ fireflies = None
  /\ portalMaterial = None
  /\ heap = InitialHeap
  /\ cameraControls = None
  /\ axesHelper = None
  /\ clock = None
  /\ gui = FALSE
  /\ resizeListener = FALSE
  /\ rafPending = 0
  /\ frame = None
  /\ initRead = None

(* ------------------------------ init() -------------------------------- *)
\* a faulty variant: the device pixel ratio is passed on as it is
PixelRatioUncapped(dpr) == dpr

\* renderer.setPixelRatio(Math.min(window.devicePixelRatio, 2))
CapPixelRatio(dpr) == Min(dpr, PixelRatioCap)

\* a faulty variant: init().finally(() => animate())
SettleAlways(outcome) == "resolved"

\* init().then(() => animate()): animate is called only if init() fulfils
Settle(outcome) == IF outcome = "fulfilled" THEN "resolved" ELSE "rejected"

\* new ShaderMaterial({uniforms: {uTime, uPixelRatio, uSize}})
FirefliesMaterial(r) ==
  [uTime |-> 0, uPixelRatio |-> r.pixelRatio, uSize |-> DefaultSize]

\* a faulty variant: the uniforms hold copies of the Color objects of config.portal
PortalMaterialOfCopies(cfg) ==
  [uTime |-> 0, uColorStart |-> SpareRefA, uColorEnd |-> SpareRefB]

\* new ShaderMaterial({uniforms: {uTime, uColorStart, uColorEnd}}): the
\* uniforms hold the Color objects of config.portal themselves
PortalMaterial(cfg) ==
  [uTime |-> 0,
   uColorStart |-> cfg.portal.colorStart,
   uColorEnd |-> cfg.portal.colorEnd]

\* new PerspectiveCamera(50, canvas.clientWidth / canvas.clientHeight, ...)
NewCamera(size) == [aspect |-> Ratio(size[1], size[2])]

\* new OrbitControls(...); cameraControls.autoRotate = false
NewControls == [autoRotate |-> FALSE]

\* new AxesHelper(4); axesHelper.visible = false
NewAxesHelper == [visible |-> FALSE]

\* new Clock(): autoStart, not yet running
NewClock == [running |-> FALSE, oldTime |-> 0, elapsedTime |-> 0]

\* gui.load(state): every controller takes its stored value; a color
\* controller writes the components into the Color object it controls
LoadFireflies(ff, s) == [ff EXCEPT !.uSize = s.Fireflies.size]
LoadHeap(hp, s) ==
  [hp EXCEPT ![config.portal.colorStart] = FromHexString(s.Portal.colorStart),
             ![config.portal.colorEnd] = FromHexString(s.Portal.colorEnd)]
LoadAxes(axes, s) == [axes EXCEPT !.visible = s.Helpers.axes]
LoadControls(ctl, s) == [ctl EXCEPT !.autoRotate = s.Camera.autoRotate]

\* a faulty variant: cameraControls.autoRotate = false runs after gui.load
ControlsDefaultLast(stored) == NewControls

\* the controls as init() leaves them: the defaults of the CONTROLS block,
\* then the stored panel state loaded over them
ControlsAfterInit(stored) ==
  IF stored = None \/ Get(stored) = EmptyText
  THEN NewControls
  ELSE LoadControls(NewControls, Parse(Get(stored)))

\* gui.onFinishChange: localStorage.setItem('guiState', JSON.stringify(gui.save()))
Persist(ff, hp, axes, ctl) == Some(Stringify(Save(ff, hp, axes, ctl)))

\* init() up to the first await: canvas, renderer, scene, loading manager,
\* gltfLoader.loadAsync
InitStart ==
  /\ phase = "boot"
  /\ \E size \in Sizes :
       renderer' = Some([size |-> size,
                         pixelRatio |-> CapPixelRatio(devicePixelRatio)])
  /\ loads' = [loads EXCEPT !.scene = "pending"]
  /\ requests' = [requests EXCEPT !.scene = @ + 1]
  /\ phase' = "loadingScene"
  /\ UNCHANGED <<envVars, sceneObjects, camera, fireflies,
                 portalMaterial, heap, uiVars, error, rafPending, frame,
                 initRead>>

\* the scene file arrives: scene.add, the lookup of 'Scene', then
\* textureLoader.loadAsync
GltfLoaded ==
  /\ phase = "loadingScene"
  /\ \E names \in SceneFiles :
       /\ sceneObjects' = names
       /\ IF "Scene" \in names
          THEN /\ loads' = [scene |-> "loaded", texture |-> "pending"]
               /\ requests' = [requests EXCEPT !.texture = @ + 1]
               /\ phase' = "loadingTexture"
               /\ error' = error
          ELSE /\ loads' = [loads EXCEPT !.scene = "loaded"]
               /\ requests' = requests
               /\ phase' = Settle("rejected")
               /\ error' = "Scene"
  /\ UNCHANGED <<envVars, glVars, uiVars, rafPending, frame, initRead>>

\* the scene file fails to load: onError logs, loadAsync rejects
GltfFailed ==
  /\ phase = "loadingScene"
  /\ loads' = [loads EXCEPT !.scene = "failed"]
  /\ phase' = Settle("rejected")
  /\ error' = "portal-scene.glb"
  /\ UNCHANGED <<envVars, requests, sceneObjects, glVars, uiVars,
                 rafPending, frame, initRead>>

\* the texture fails to load: onError logs, loadAsync rejects
TextureFailed ==
  /\ phase = "loadingTexture"
  /\ loads' = [loads EXCEPT !.texture = "failed"]
  /\ phase' = Settle("rejected")
  /\ error' = "baked.jpg"
  /\ UNCHANGED <<envVars, requests, sceneObjects, glVars, uiVars,
                 rafPending, frame, initRead>>

\* the texture arrives and a material assignment dereferences a lookup
\* that found nothing, before the fireflies are built
AssembleNoMesh ==
  /\ phase = "loadingTexture"
  /\ FirstMissing(AssembleLookups, sceneObjects) # None
  /\ loads' = [loads EXCEPT !.texture = "loaded"]
  /\ phase' = Settle("rejected")
  /\ error' = Get(FirstMissing(AssembleLookups, sceneObjects))
  /\ UNCHANGED <<envVars, requests, sceneObjects, glVars, uiVars,
                 rafPending, frame, initRead>>

\* the texture arrives, the fireflies are built and added, the resize
\* listener is registered, and the lookup of 'portalLight' finds nothing
AssembleNoPortal ==
  /\ phase = "loadingTexture"
  /\ FirstMissing(AssembleLookups, sceneObjects) = None
  /\ "portalLight" \notin sceneObjects
  /\ loads' = [loads EXCEPT !.texture = "loaded"]
  /\ fireflies' = Some(FirefliesMaterial(Get(renderer)))
  /\ resizeListener' = TRUE
  /\ sceneObjects' = sceneObjects \cup {"Fireflies"}
  /\ portalMaterial' = Some(PortalMaterial(config))
  /\ phase' = Settle("rejected")
  /\ error' = "portalLight"
  /\ UNCHANGED <<envVars, requests, renderer, camera, heap,
                 cameraControls, axesHelper, clock, gui, rafPending, frame,
                 initRead>>

\* the texture arrives and init() runs to its end: materials, fireflies,
\* resize listener, portal, camera, controls, helpers, clock, panel, and
\* the load of the stored panel state
AssembleScene ==
  /\ phase = "loadingTexture"
  /\ FirstMissing(AssembleLookups, sceneObjects) = None
  /\ "portalLight" \in sceneObjects
  /\ loads' = [loads EXCEPT !.texture = "loaded"]
  /\ resizeListener' = TRUE
  /\ sceneObjects' = sceneObjects \cup {"Fireflies"}
  /\ portalMaterial' = Some(PortalMaterial(config))
  /\ camera' = Some(NewCamera(clientSize))
  /\ clock' = Some(NewClock)
  /\ gui' = TRUE
  /\ initRead' = Some(localStorage)
  /\ LET ff == FirefliesMaterial(Get(renderer))
     IN IF localStorage = None \/ Get(localStorage) = EmptyText
        THEN \* if (guiState) is false: nothing is loaded
             /\ fireflies' = Some(ff)
             /\ heap' = heap
             /\ axesHelper' = Some(NewAxesHelper)
             /\ cameraControls' = Some(ControlsAfterInit(localStorage))
             /\ localStorage' = localStorage
             /\ phase' = Settle("fulfilled")
             /\ error' = error
        ELSE IF ~IsJSON(Get(localStorage))
        THEN \* JSON.parse throws a SyntaxError
             /\ fireflies' = Some(ff)
             /\ heap' = heap
             /\ axesHelper' = Some(NewAxesHelper)
             /\ cameraControls' = Some(NewControls)
             /\ localStorage' = localStorage
             /\ phase' = Settle("rejected")
             /\ error' = "guiState"
        ELSE \* gui.load, whose changes fire onFinishChange
             LET s == Parse(Get(localStorage))
                 ff2 == LoadFireflies(ff, s)
                 hp2 == LoadHeap(heap, s)
                 ax2 == LoadAxes(NewAxesHelper, s)
                 ct2 == ControlsAfterInit(localStorage)
             IN /\ fireflies' = Some(ff2)
                /\ heap' = hp2
                /\ axesHelper' = Some(ax2)
                /\ cameraControls' = Some(ct2)
                /\ localStorage' = Persist(ff2, hp2, ax2, ct2)
                /\ phase' = Settle("fulfilled")
                /\ error' = error
  /\ UNCHANGED <<clientSize, devicePixelRatio, now, requests,
                 renderer, rafPending, frame>>

(* ----------------------------- animate() ------------------------------ *)
\* a faulty variant: animate() does not request the next frame
NoAnimationFrame(pending) == pending

\* requestAnimationFrame(animate): one more callback is pending
RequestAnimationFrame(pending) == pending + 1

\* clock.getElapsedTime(): the first call starts the clock at 0, later
\* calls add the time passed since the previous call
GetElapsedTime(c, t) ==
  IF ~c.running
  THEN [running |-> TRUE, oldTime |-> t, elapsedTime |-> 0]
  ELSE [running |-> TRUE, oldTime |-> t,
        elapsedTime |-> c.elapsedTime + (t - c.oldTime)]

\* resizeRendererToDisplaySize(renderer): whether the rendering surface
\* differs from the displayed size
NeedResize(r, size) == r.size # size

\* resizeRendererToDisplaySize(renderer): the renderer, resized if needed
ResizeRenderer(r, size) ==
  IF NeedResize(r, size) THEN [r EXCEPT !.size = size] ELSE r

\* a faulty variant: the camera keeps the aspect it was built with
KeepAspect(cam, need, size) == cam

\* if (resizeRendererToDisplaySize(renderer)) { camera.aspect = ... }
UpdateAspect(cam, need, size) ==
  IF need THEN [cam EXCEPT !.aspect = Ratio(size[1], size[2])] ELSE cam

\* firefliesMaterial.uniforms.uTime.value = elapsedTime
UpdateFireflies(ff, elapsedTime) == [ff EXCEPT !.uTime = elapsedTime]

\* a faulty variant: the portal's time uniform is not written
PortalTimeStale(pm, elapsedTime) == pm

\* portalMaterial.uniforms.uTime.value = elapsedTime
UpdatePortal(pm, elapsedTime) == [pm EXCEPT !.uTime = elapsedTime]

\* renderer.render(scene, camera): what the draw reads
Render(r, cam, ff, pm, hp, elapsedTime, need) ==
  [elapsedTime |-> elapsedTime,
   firefliesTime |-> ff.uTime,
   portalTime |-> pm.uTime,
   uPixelRatio |-> ff.uPixelRatio,
   uSize |-> ff.uSize,
   colorStart |-> hp[pm.uColorStart],
   colorEnd |-> hp[pm.uColorEnd],
   aspect |-> cam.aspect,
   size |-> r.size,
   resized |-> need]

FailPoints == {"controls", "render"}

\* the body of animate(), with `pending` callbacks waiting when it is
\* entered; fail names the call that throws, if one does
AnimateBody(pending, fail) ==
  LET clk == GetElapsedTime(Get(clock), now)
      elapsedTime == clk.elapsedTime
      need == NeedResize(Get(renderer), clientSize)
      rend == ResizeRenderer(Get(renderer), clientSize)
      cam == UpdateAspect(Get(camera), need, clientSize)
      ff == UpdateFireflies(Get(fireflies), elapsedTime)
      pm == UpdatePortal(Get(portalMaterial), elapsedTime)
  IN /\ rafPending' = RequestAnimationFrame(pending)
     /\ clock' = Some(clk)
     /\ renderer' = Some(rend)
     /\ camera' = Some(cam)
     /\ IF fail = "controls"
        THEN UNCHANGED <<fireflies, portalMaterial>>
        ELSE /\ fireflies' = Some(ff)
             /\ portalMaterial' = Some(pm)
     /\ frame' = IF fail = "none"
                 THEN Some(Render(rend, cam, ff, pm, heap, elapsedTime, need))
                 ELSE None
     /\ UNCHANGED <<envVars, loadVars, heap, cameraControls, axesHelper, gui,
                    resizeListener, error>>

\* .then(() => animate()): the first call, in the microtask that follows
\* the end of init()
ThenAnimate ==
  /\ phase = "resolved"
  /\ phase' = "running"
  /\ initRead' = None
  /\ \E fail \in FailPoints \cup {"none"} : AnimateBody(rafPending, fail)

\* the host runs the pending frame callback, which draws
AnimateFrame ==
  /\ phase = "running"
  /\ rafPending > 0
  /\ AnimateBody(rafPending - 1, "none")
  /\ UNCHANGED <<phase, initRead>>

\* the host runs the pending frame callback, which throws part-way
AnimateThrows ==
  /\ phase = "running"
  /\ rafPending > 0
  /\ \E fail \in FailPoints : AnimateBody(rafPending - 1, fail)
  /\ UNCHANGED <<phase, initRead>>

(* ------------------------------ events -------------------------------- *)
\* no event is delivered between the end of init() and the microtask
\* that calls animate()
BetweenTasks == phase # "resolved"

\* the wall clock advances
Tock ==
  /\ now < MaxTime
  /\ now' = now + 1
  /\ frame' = None
  /\ UNCHANGED <<clientSize, devicePixelRatio, localStorage,
                 loadVars, glVars, uiVars, phase, error, rafPending, initRead>>

\* the layout or the display changes: the canvas is displayed at another
\* size, or the device pixel ratio changes
DisplayChange ==
  /\ BetweenTasks
  /\ \E size \in Sizes, dpr \in Dprs :
       /\ <<size, dpr>> # <<clientSize, devicePixelRatio>>
       /\ clientSize' = size
       /\ devicePixelRatio' = dpr
  /\ frame' = None
  /\ UNCHANGED <<now, localStorage, loadVars, glVars, uiVars, phase, error,
                 rafPending, initRead>>

\* a faulty variant: the listener writes the point size instead of the pixel ratio
OnResizeWritesSize(ff, dpr) == [ff EXCEPT !.uSize = CapPixelRatio(dpr)]

\* the listener of the 'resize' event
OnResize(ff, dpr) == [ff EXCEPT !.uPixelRatio = CapPixelRatio(dpr)]

\* the window fires a 'resize' event, dispatched to the listener if it
\* is registered
ResizeEvent ==
  /\ BetweenTasks
  /\ fireflies' = IF resizeListener
                  THEN Some(OnResize(Get(fireflies), devicePixelRatio))
                  ELSE fireflies
  /\ frame' = None
  /\ UNCHANGED <<clientSize, devicePixelRatio, now, localStorage, loadVars,
                 renderer, camera, portalMaterial, heap, uiVars, phase, error,
                 rafPending, initRead>>

(* ---------------------------- debug panel ----------------------------- *)
\* a color controller writes the picked color into the Color object
SetColor(hp, ref, hex) == [hp EXCEPT ![ref] = FromHexString(hex)]

PanelReady == gui /\ BetweenTasks

\* the size controller of the Fireflies folder, then onFinishChange
EditSize ==
  /\ PanelReady
  /\ \E v \in FireflySizes :
       LET ff == [Get(fireflies) EXCEPT !.uSize = v]
       IN /\ fireflies' = Some(ff)
          /\ localStorage' = Persist(ff, heap, Get(axesHelper), Get(cameraControls))
  /\ frame' = None
  /\ UNCHANGED <<clientSize, devicePixelRatio, now, loadVars,
                 renderer, camera, portalMaterial, heap, uiVars, phase, error,
                 rafPending, initRead>>

\* a color controller of the Portal folder, then onFinishChange
EditColor ==
  /\ PanelReady
  /\ \E prop \in {"colorStart", "colorEnd"}, hex \in PickableColors :
       LET hp == SetColor(heap, config.portal[prop], hex)
       IN /\ heap' = hp
          /\ localStorage' = Persist(Get(fireflies), hp, Get(axesHelper),
                                     Get(cameraControls))
  /\ frame' = None
  /\ UNCHANGED <<clientSize, devicePixelRatio, now, loadVars,
                 renderer, camera, fireflies, portalMaterial, uiVars, phase,
                 error, rafPending, initRead>>

\* the axes checkbox of the Helpers folder, then onFinishChange
EditAxes ==
  /\ PanelReady
  /\ LET axes == [Get(axesHelper) EXCEPT !.visible = ~@]
     IN /\ axesHelper' = Some(axes)
        /\ localStorage' = Persist(Get(fireflies), heap, axes, Get(cameraControls))
  /\ frame' = None
  /\ UNCHANGED <<clientSize, devicePixelRatio, now, loadVars,
                 glVars, cameraControls, clock, gui, resizeListener, phase,
                 error, rafPending, initRead>>

\* the autoRotate checkbox of the Camera folder, then onFinishChange
EditAutoRotate ==
  /\ PanelReady
  /\ LET ctl == [Get(cameraControls) EXCEPT !.autoRotate = ~@]
     IN /\ cameraControls' = Some(ctl)
        /\ localStorage' = Persist(Get(fireflies), heap, Get(axesHelper), ctl)
  /\ frame' = None
  /\ UNCHANGED <<clientSize, devicePixelRatio, now, loadVars,
                 glVars, axesHelper, clock, gui, resizeListener, phase, error,
                 rafPending, initRead>>

(* ------------------------------ restart ------------------------------- *)
\* the page is reloaded: the program starts over, the host state stays
Restart ==
  /\ phase \notin {"boot", "resolved"}
  /\ phase' = "boot"
  /\ error' = ""
  /\ loads' = [scene |-> "idle", texture |-> "idle"]
  /\ requests' = [scene |-> 0, texture |-> 0]
  /\ sceneObjects' = {}
  /\ renderer' = None
  /\ camera' = None
  /\ fireflies' = None
  /\ portalMaterial' = None
  /\ heap' = InitialHeap
  /\ cameraControls' = None
  /\ axesHelper' = None
  /\ clock' = None
  /\ gui' = FALSE
  /\ resizeListener' = FALSE
  /\ rafPending' = 0
  /\ frame' = None
  /\ initRead' = None
  /\ UNCHANGED <<clientSize, devicePixelRatio, now, localStorage>>

(* --------------------------- specifications --------------------------- *)
\* init() and the first call of animate()
Startup ==
  \/ InitStart
  \/ GltfLoaded
  \/ GltfFailed
  \/ TextureFailed
  \/ AssembleNoMesh
  \/ AssembleNoPortal
  \/ AssembleScene
  \/ ThenAnimate

\* the frame callbacks the host runs
Frames == AnimateFrame \/ AnimateThrows

\* what the display and the wall clock do
Display == Tock \/ DisplayChange \/ ResizeEvent

\* what the user does in the debug panel
Panel == EditSize \/ EditColor \/ EditAxes \/ EditAutoRotate

NextRun == Startup \/ Frames \/ Display \/ Panel
Next == NextRun \/ Restart
NextDisplay == Startup \/ Frames \/ Display \/ Restart
NextPanel == Startup \/ Frames \/ Panel \/ Restart
NextLoop == Startup \/ Frames \/ Display

\* any number of runs of the page over the same host
Spec == Init /\ [][Next]_vars

\* the runs in which nobody touches the debug panel
DisplaySpec == Init /\ [][NextDisplay]_vars

\* the runs in which the display and the wall clock stand still
PanelSpec == Init /\ [][NextPanel]_vars

\* a first visit: nothing is stored under 'guiState'
InitFresh == Init /\ localStorage = None

\* one run of the page on a first visit, in which the host keeps running
\* the pending frame callback
LoopSpec == InitFresh /\ [][NextLoop]_vars /\ WF_vars(AnimateFrame)

TypeOK ==
  /\ clientSize \in Sizes
  /\ devicePixelRatio \in Dprs
  /\ now \in 0..MaxTime
  /\ phase \in {"boot", "loadingScene", "loadingTexture", "resolved",
                "running", "rejected"}
  /\ rafPending \in 0..1

(* ------------------------------ claims -------------------------------- *)
AnimateStep == ThenAnimate \/ AnimateFrame \/ AnimateThrows

\* C1: at every draw, both uTime uniforms equal the elapsed time that the
\* clock returned at the start of the same tick.
C1_DrawReadsThisTicksTime ==
  frame # None =>
    /\ Get(frame).elapsedTime = Get(clock).elapsedTime
    /\ Get(frame).firefliesTime = Get(frame).elapsedTime
    /\ Get(frame).portalTime = Get(frame).elapsedTime

\* a draw of a tick later than the first, after the clock has advanced
C1_Witness ==
  /\ frame # None
  /\ Get(frame).elapsedTime > 0
  /\ Get(frame).portalTime = Get(frame).elapsedTime

\* C2: wherever a frame tick has run, a frame callback is pending or the
\* loop is about to start, both loads have completed; each asset is
\* requested at most once in a run, and after a failed load the run is
\* rejected with no frame callback and no draw.
C2_LoopStartsAfterLoads ==
  /\ (phase \in {"resolved", "running"} \/ rafPending > 0 \/ frame # None)
       => loads = [scene |-> "loaded", texture |-> "loaded"]
  /\ requests.scene <= 1
  /\ requests.texture <= 1
  /\ (loads.scene = "failed" \/ loads.texture = "failed")
       => phase = "rejected" /\ rafPending = 0 /\ frame = None

\* the loop runs and has drawn, with both assets loaded after one request
C2_Witness ==
  /\ phase = "running"
  /\ frame # None
  /\ loads = [scene |-> "loaded", texture |-> "loaded"]
  /\ requests = [scene |-> 1, texture |-> 1]

ResizeCallback == ResizeEvent /\ resizeListener

C4_AspectIsDisplayedRatio ==
  frame # None =>
    /\ Get(frame).aspect = Ratio(clientSize[1], clientSize[2])
    /\ Get(frame).size = clientSize

\* a draw of a later tick that found the displayed size changed
C4_Witness ==
  /\ frame # None
  /\ Get(frame).resized
  /\ Get(frame).elapsedTime > 0
  /\ Get(frame).aspect = Ratio(clientSize[1], clientSize[2])

\* the stored value init() read is absent, empty or not JSON
StoredUnusable ==
  /\ initRead # None
  /\ Get(initRead) = None \/ ~IsJSON(Get(Get(initRead)))

\* C5 as claimed: with an absent, empty or malformed stored value init()
\* completes with the defaults and the loop starts.
C5_UnusableStoredStateIgnored ==
  StoredUnusable =>
    /\ phase = "resolved"
    /\ Get(fireflies).uSize = DefaultSize
    /\ heap = InitialHeap
    /\ Get(axesHelper) = NewAxesHelper
    /\ Get(cameraControls) = NewControls

\* the stored value init() read is a persisted panel state
StoredUsable ==
  /\ initRead # None
  /\ Get(initRead) # None
  /\ IsJSON(Get(Get(initRead)))

\* C6: when init() ends after reading a persisted panel state, every
\* controlled value equals the persisted one; a persisted autoRotate of
\* true overrides the default false.
C6_PersistedStateRestored ==
  (phase = "resolved" /\ StoredUsable) =>
    LET s == Parse(Get(Get(initRead)))
    IN /\ Get(cameraControls).autoRotate = s.Camera.autoRotate
       /\ Get(axesHelper).visible = s.Helpers.axes
       /\ Get(fireflies).uSize = s.Fireflies.size
       /\ heap[config.portal.colorStart] = FromHexString(s.Portal.colorStart)
       /\ heap[config.portal.colorEnd] = FromHexString(s.Portal.colorEnd)

\* init() has ended after reading a persisted autoRotate of true
C6_Witness ==
  /\ phase = "resolved"
  /\ StoredUsable
  /\ Parse(Get(Get(initRead))).Camera.autoRotate
  /\ Get(cameraControls).autoRotate

ClaimedNames == {"baked", "lampLightA", "lampLightB", "portalLight", "Fireflies"}
LookedUpNames == {"baked", "lampLightA", "lampLightB", "portalLight"}

\* C7 as claimed: if any of the five names is absent from the scene file,
\* init() does not complete.
C7_FiveNamesRequired ==
  [][(phase = "loadingTexture" /\ ~(ClaimedNames \subseteq sceneObjects))
       => phase' \notin {"resolved", "running"}]_vars

\* C7 as amended: if baked, lampLightA, lampLightB or portalLight is absent
\* from the scene file, init() does not complete and no frame callback is
\* requested; a rejected init() names the lookup that failed and never
\* starts the loop.
C7_LookedUpNamesRequired ==
  /\ [][(phase = "loadingTexture" /\ ~(LookedUpNames \subseteq sceneObjects))
          => phase' \notin {"resolved", "running"} /\ rafPending' = 0]_vars
  /\ [](phase = "rejected" => rafPending = 0 /\ frame = None)
  /\ [](error \in LookedUpNames => phase = "rejected" /\ error \notin sceneObjects)

\* init() was rejected by the lookup of a name the scene file lacks
C7_Witness ==
  /\ phase = "rejected"
  /\ error = "portalLight"
  /\ "portalLight" \notin sceneObjects

\* C8: at every draw the portal's color uniforms have the current values of
\* config.portal.colorStart and colorEnd, and animate() writes neither the
\* colors nor the uniforms' references to them.
C8_DrawReadsCurrentColors ==
  /\ [](frame # None =>
          /\ Get(frame).colorStart = heap[config.portal.colorStart]
          /\ Get(frame).colorEnd = heap[config.portal.colorEnd])
  /\ [][AnimateStep =>
          /\ heap' = heap
          /\ Get(portalMaterial').uColorStart = Get(portalMaterial).uColorStart
          /\ Get(portalMaterial').uColorEnd = Get(portalMaterial).uColorEnd]_vars

\* a draw that read a start color picked in the panel
C8_Witness ==
  /\ frame # None
  /\ Get(frame).colorStart = FromHexString(HexRed)
  /\ Get(frame).colorEnd = FromHexString(HexEnd)

\* the steps that write a pixel ratio
RendererBuilt == renderer = None /\ renderer' # None
FirefliesBuilt == fireflies = None /\ fireflies' # None

\* C9 as claimed: the renderer's pixel ratio and, in a run whose init()
\* completes, uPixelRatio are written as min(devicePixelRatio at that time,
\* 2), and neither is ever greater than 2.
C9_WritesCapCurrentDpr ==
  /\ [](renderer # None => Get(renderer).pixelRatio <= PixelRatioCap)
  /\ [](fireflies # None => Get(fireflies).uPixelRatio <= PixelRatioCap)
  /\ [][/\ RendererBuilt =>
             Get(renderer').pixelRatio = Min(devicePixelRatio, PixelRatioCap)
        /\ ((FirefliesBuilt /\ phase' = "resolved")
              \/ (ResizeCallback /\ phase = "running")) =>
             Get(fireflies').uPixelRatio = Min(devicePixelRatio, PixelRatioCap)]_vars

\* C9 as amended: neither pixel ratio is ever greater than 2; the renderer's
\* is min(devicePixelRatio, 2) as of init's setPixelRatio; uPixelRatio is
\* built as a copy of the renderer's and is min(devicePixelRatio, 2) as of
\* each resize event.
C9_PixelRatiosCapped ==
  /\ [](renderer # None => Get(renderer).pixelRatio <= PixelRatioCap)
  /\ [](fireflies # None => Get(fireflies).uPixelRatio <= PixelRatioCap)
  /\ [][/\ RendererBuilt =>
             Get(renderer').pixelRatio = Min(devicePixelRatio, PixelRatioCap)
        /\ FirefliesBuilt =>
             Get(fireflies').uPixelRatio = Get(renderer).pixelRatio
        /\ ResizeCallback =>
             Get(fireflies').uPixelRatio = Min(devicePixelRatio, PixelRatioCap)]_vars

\* on a display of ratio above 2 the callback has written 2 while the
\* renderer keeps the smaller ratio of init
C9_Witness ==
  /\ fireflies # None
  /\ devicePixelRatio > PixelRatioCap
  /\ Get(fireflies).uPixelRatio = PixelRatioCap
  /\ Get(renderer).pixelRatio < PixelRatioCap

====
